---- MODULE Spec2Model ----
(***************************************************************************)
(* Model of TradingEnvironment (src/environment.py): a single-asset        *)
(* trading account driven by step(action, volume) calls over a sequence of *)
(* price bars.                                                             *)
(*                                                                         *)
(* Money amounts (balance, purchase_price, portfolio_value) are Python     *)
(* floats in the source; they are modelled as exact rationals <<n, d>>     *)
(* in lowest terms with d > 0, so that the divisions of buy_more and sell  *)
(* are computed, not assumed.  Volumes and bar prices are drawn from       *)
(* small sets of integers.                                                 *)
(***************************************************************************)
EXTENDS Integers, Sequences, FiniteSets, TLC

\* ------------------------------------------------------------------ bounds
NumBars == 3
MaxPrice == 2
MaxVolume == 2

\* constructor arguments of TradingEnvironment
InitialBalance == 5
TransactionFee == 1

\* ------------------------------------------------- exact number arithmetic
Abs(x) == IF x < 0 THEN -x ELSE x

RECURSIVE GCD(_, _)
GCD(a, b) == IF b = 0 THEN a ELSE GCD(b, a % b)

\* the number n/d in lowest terms, d # 0
Rat(n, d) ==
    LET g == GCD(Abs(n), Abs(d))
        s == IF d < 0 THEN -1 ELSE 1
    IN  <<(s * n) \div g, (s * d) \div g>>

Num(i) == <<i, 1>>
Add(x, y) == Rat(x[1] * y[2] + y[1] * x[2], x[2] * y[2])
Sub(x, y) == Rat(x[1] * y[2] - y[1] * x[2], x[2] * y[2])
Mul(x, y) == Rat(x[1] * y[1], x[2] * y[2])
\* x / y for y # 0
Div(x, y) == Rat(x[1] * y[2], x[2] * y[1])

\* ------------------------------------------------------------- enumeration
PositionType == {"LONG", "HOLD", "SHORT"}

\* the agent's raw actions and their translation
action_mapping == [a \in {1, 0, -1} |->
                     IF a = 1 THEN "LONG" ELSE IF a = 0 THEN "HOLD" ELSE "SHORT"]

\* a table that leaves the pair (HOLD, SHORT) out of the hold entry
action_position_mapping_without_hold_short ==
    << [keys |-> {<<"LONG", "HOLD">>, <<"SHORT", "HOLD">>},
        function |-> "open_new_position"],
       [keys |-> {<<"LONG", "LONG">>, <<"SHORT", "SHORT">>},
        function |-> "buy_more"],
       [keys |-> {<<"LONG", "SHORT">>, <<"SHORT", "LONG">>},
        function |-> "sell"],
       [keys |-> {<<"HOLD", "HOLD">>, <<"HOLD", "LONG">>},
        function |-> "hold"] >>

\* (agent action, type of open position) -> function, in insertion order
action_position_mapping ==
    << [keys |-> {<<"LONG", "HOLD">>, <<"SHORT", "HOLD">>},
        function |-> "open_new_position"],
       [keys |-> {<<"LONG", "LONG">>, <<"SHORT", "SHORT">>},
        function |-> "buy_more"],
       [keys |-> {<<"LONG", "SHORT">>, <<"SHORT", "LONG">>},
        function |-> "sell"],
       [keys |-> {<<"HOLD", "HOLD">>, <<"HOLD", "LONG">>, <<"HOLD", "SHORT">>},
        function |-> "hold"] >>

\* the first entry whose keys hold the pair; falls off the loop with None
get_action_position_outcome(action_position) ==
    LET hits == {i \in 1..Len(action_position_mapping) :
                   action_position \in action_position_mapping[i].keys}
    IN  IF hits = {} THEN "None"
        ELSE action_position_mapping[CHOOSE i \in hits : \A j \in hits : i <= j].function

\* ------------------------------------------------------------------- state
VARIABLES
    data,             \* the Open column of the bar table, a sequence of prices
    current_step,     \* index of the next bar (0-based, as in the source)
    current_state,    \* the Open price of the bar last read
    balance,
    portfolio_value,
    position,         \* [position_type, owned_volume, purchase_price]
    last              \* observation of the last call: its arguments, the state
                      \* it started from, the handler it ran, every change of
                      \* balance it made, what it returned

vars == <<data, current_step, current_state, balance, portfolio_value, position, last>>

NoPosition == [position_type |-> "HOLD", owned_volume |-> 0, purchase_price |-> Num(0)]

\* ------------------------------------------------------ portfolio valuation
\* a valuation of SHORT that drops the factor 2 of the entry value
update_portfolio_value_short_without_entry(pos, current_price) ==
    IF pos.position_type = "LONG"
    THEN Mul(Num(current_price), Num(pos.owned_volume))
    ELSE IF pos.position_type = "SHORT"
    THEN Sub(Mul(pos.purchase_price, Num(pos.owned_volume)),
             Mul(Num(current_price), Num(pos.owned_volume)))
    ELSE Num(0)

update_portfolio_value(pos, current_price) ==
    IF pos.position_type = "LONG"
    THEN Mul(Num(current_price), Num(pos.owned_volume))
    ELSE IF pos.position_type = "SHORT"
    THEN Sub(Mul(Mul(Num(2), pos.purchase_price), Num(pos.owned_volume)),
             Mul(Num(current_price), Num(pos.owned_volume)))
    ELSE Num(0)

\* ----------------------------------------------------------------- handlers
\* A handler maps the account s = [balance, position, portfolio_value, events,
\* raised] to the account it leaves.  events lists every change of balance, in
\* order, as <<kind, function that made it, amount>>.

\* a fee that is charged at most once per step
pay_transaction_fee_once_per_step(s, caller) ==
    IF \E i \in DOMAIN s.events : s.events[i][1] = "fee"
    THEN s
    ELSE [s EXCEPT !.balance = Sub(@, Num(TransactionFee)),
                   !.events = Append(@, <<"fee", caller, Num(TransactionFee)>>)]

pay_transaction_fee(s, caller) ==
    [s EXCEPT !.balance = Sub(@, Num(TransactionFee)),
              !.events = Append(@, <<"fee", caller, Num(TransactionFee)>>)]

\* open_new_position that never takes the cost from the balance
open_new_position_cost_not_paid(s, action, volume, current_price) ==
    LET s1 == [s EXCEPT !.position = [position_type |-> action,
                                      owned_volume |-> volume,
                                      purchase_price |-> Num(current_price)]]
    IN  pay_transaction_fee(s1, "open_new_position")

open_new_position(s, action, volume, current_price) ==
    LET cost == Mul(Num(volume), Num(current_price))
        s1 == [s EXCEPT !.balance = Sub(@, cost),
                        !.events = Append(@, <<"cost", "open_new_position", cost>>),
                        !.position = [position_type |-> action,
                                      owned_volume |-> volume,
                                      purchase_price |-> Num(current_price)]]
    IN  pay_transaction_fee(s1, "open_new_position")

\* buy_more with the two weights of the average exchanged
buy_more_weights_swapped(s, action, volume, current_price) ==
    LET owned_volume == s.position.owned_volume
        purchase_price == s.position.purchase_price
        cost == Mul(Num(volume), Num(current_price))
        s1 == [s EXCEPT !.balance = Sub(@, cost),
                        !.events = Append(@, <<"cost", "buy_more", cost>>)]
        new_volume == owned_volume + volume
    IN  IF new_volume = 0
        THEN [s1 EXCEPT !.raised = TRUE]
        ELSE LET new_purchase_price ==
                     Div(Add(Mul(purchase_price, Num(volume)),
                             Mul(Num(current_price), Num(owned_volume))),
                         Num(new_volume))
                 s2 == [s1 EXCEPT !.position =
                                     [position_type |-> s.position.position_type,
                                      owned_volume |-> new_volume,
                                      purchase_price |-> new_purchase_price]]
             IN  pay_transaction_fee(s2, "buy_more")

buy_more(s, action, volume, current_price) ==
    LET owned_volume == s.position.owned_volume
        purchase_price == s.position.purchase_price
        cost == Mul(Num(volume), Num(current_price))
        s1 == [s EXCEPT !.balance = Sub(@, cost),
                        !.events = Append(@, <<"cost", "buy_more", cost>>)]
        new_volume == owned_volume + volume
    IN  IF new_volume = 0
        THEN \* np.average raises ZeroDivisionError: the weights sum to zero
             [s1 EXCEPT !.raised = TRUE]
        ELSE LET new_purchase_price ==
                     Div(Add(Mul(purchase_price, Num(owned_volume)),
                             Mul(Num(current_price), Num(volume))),
                         Num(new_volume))
                 s2 == [s1 EXCEPT !.position =
                                     [position_type |-> s.position.position_type,
                                      owned_volume |-> new_volume,
                                      purchase_price |-> new_purchase_price]]
             IN  pay_transaction_fee(s2, "buy_more")

\* sell whose full close zeroes side and volume but keeps the purchase price
sell_close_keeps_purchase_price(s, action, volume, current_price) ==
    LET position_type == s.position.position_type
        owned_volume == s.position.owned_volume
        purchase_price == s.position.purchase_price
    IN  IF owned_volume > volume
        THEN LET profit_per_share ==
                     Div(Sub(s.portfolio_value,
                             Mul(purchase_price, Num(owned_volume))),
                         Num(owned_volume))
                 outcome == Mul(Add(purchase_price, profit_per_share), Num(volume))
                 s1 == [s EXCEPT !.balance = Add(@, outcome),
                                 !.events = Append(@, <<"outcome", "sell", outcome>>),
                                 !.position = [position_type |-> position_type,
                                               owned_volume |-> owned_volume - volume,
                                               purchase_price |-> purchase_price]]
             IN  pay_transaction_fee(s1, "sell")
        ELSE LET s1 == [s EXCEPT !.balance = Add(@, s.portfolio_value),
                                 !.events = Append(@, <<"outcome", "sell", s.portfolio_value>>),
                                 !.position = [NoPosition EXCEPT
                                                !.purchase_price = purchase_price]]
                 remaining_volume == volume - owned_volume
                 s2 == IF remaining_volume > 0
                       THEN open_new_position(s1, action, remaining_volume, current_price)
                       ELSE s1
             IN  pay_transaction_fee(s2, "sell")

\* sell whose full close credits the entry value of the position instead of
\* its portfolio value
sell_full_close_at_entry(s, action, volume, current_price) ==
    LET position_type == s.position.position_type
        owned_volume == s.position.owned_volume
        purchase_price == s.position.purchase_price
    IN  IF owned_volume > volume
        THEN LET profit_per_share ==
                     Div(Sub(s.portfolio_value,
                             Mul(purchase_price, Num(owned_volume))),
                         Num(owned_volume))
                 outcome == Mul(Add(purchase_price, profit_per_share), Num(volume))
                 s1 == [s EXCEPT !.balance = Add(@, outcome),
                                 !.events = Append(@, <<"outcome", "sell", outcome>>),
                                 !.position = [position_type |-> position_type,
                                               owned_volume |-> owned_volume - volume,
                                               purchase_price |-> purchase_price]]
             IN  pay_transaction_fee(s1, "sell")
        ELSE LET entry_value == Mul(purchase_price, Num(owned_volume))
                 s1 == [s EXCEPT !.balance = Add(@, entry_value),
                                 !.events = Append(@, <<"outcome", "sell", entry_value>>),
                                 !.position = NoPosition]
                 remaining_volume == volume - owned_volume
                 s2 == IF remaining_volume > 0
                       THEN open_new_position(s1, action, remaining_volume, current_price)
                       ELSE s1
             IN  pay_transaction_fee(s2, "sell")

\* sell whose partial close credits total_profit instead of outcome
sell_partial_credits_profit(s, action, volume, current_price) ==
    LET position_type == s.position.position_type
        owned_volume == s.position.owned_volume
        purchase_price == s.position.purchase_price
    IN  IF owned_volume > volume
        THEN LET profit_per_share ==
                     Div(Sub(s.portfolio_value,
                             Mul(purchase_price, Num(owned_volume))),
                         Num(owned_volume))
                 total_profit == Mul(profit_per_share, Num(volume))
                 s1 == [s EXCEPT !.balance = Add(@, total_profit),
                                 !.events = Append(@, <<"outcome", "sell", total_profit>>),
                                 !.position = [position_type |-> position_type,
                                               owned_volume |-> owned_volume - volume,
                                               purchase_price |-> purchase_price]]
             IN  pay_transaction_fee(s1, "sell")
        ELSE LET s1 == [s EXCEPT !.balance = Add(@, s.portfolio_value),
                                 !.events = Append(@, <<"outcome", "sell", s.portfolio_value>>),
                                 !.position = NoPosition]
                 remaining_volume == volume - owned_volume
                 s2 == IF remaining_volume > 0
                       THEN open_new_position(s1, action, remaining_volume, current_price)
                       ELSE s1
             IN  pay_transaction_fee(s2, "sell")

sell(s, action, volume, current_price) ==
    LET position_type == s.position.position_type
        owned_volume == s.position.owned_volume
        purchase_price == s.position.purchase_price
    IN  IF owned_volume > volume
        THEN LET profit_per_share ==
                     Div(Sub(s.portfolio_value,
                             Mul(purchase_price, Num(owned_volume))),
                         Num(owned_volume))
                 outcome == Mul(Add(purchase_price, profit_per_share), Num(volume))
                 s1 == [s EXCEPT !.balance = Add(@, outcome),
                                 !.events = Append(@, <<"outcome", "sell", outcome>>),
                                 !.position = [position_type |-> position_type,
                                               owned_volume |-> owned_volume - volume,
                                               purchase_price |-> purchase_price]]
             IN  pay_transaction_fee(s1, "sell")
        ELSE LET s1 == [s EXCEPT !.balance = Add(@, s.portfolio_value),
                                 !.events = Append(@, <<"outcome", "sell", s.portfolio_value>>),
                                 !.position = NoPosition]
                 remaining_volume == volume - owned_volume
                 s2 == IF remaining_volume > 0
                       THEN open_new_position(s1, action, remaining_volume, current_price)
                       ELSE s1
             IN  pay_transaction_fee(s2, "sell")

\* a hold that pays the transaction fee like the other handlers
hold_pays_fee(s, action, volume, current_price) == pay_transaction_fee(s, "hold")

hold(s, action, volume, current_price) == s

\* the call outcome_function(action=..., volume=..., current_price=...)
Call(function, s, action, volume, current_price) ==
    CASE function = "open_new_position" -> open_new_position(s, action, volume, current_price)
      [] function = "buy_more" -> buy_more(s, action, volume, current_price)
      [] function = "sell" -> sell(s, action, volume, current_price)
      [] function = "hold" -> hold(s, action, volume, current_price)
      [] OTHER -> \* calling None raises TypeError
                  [s EXCEPT !.raised = TRUE]

\* --------------------------------------------------------------- operations
NoCall == [op |-> "__init__", action |-> "HOLD", volume |-> 0, price |-> 0,
           pre_balance |-> Num(0), pre_position |-> NoPosition,
           pre_portfolio_value |-> Num(0), pre_step |-> 0,
           function |-> "None", events |-> <<>>, raised |-> FALSE,
           returned |-> "None"]

Init ==
    /\ data \in [1..NumBars -> 1..MaxPrice]
    /\ current_step = 0
    /\ balance = Num(InitialBalance)
    /\ current_state = data[1]
    /\ portfolio_value = Num(0)
    /\ position = NoPosition
    /\ last = NoCall

\* a reset that leaves the open position of the previous episode in place
reset_keeps_position ==
    /\ current_step' = 0
    /\ balance' = Num(InitialBalance)
    /\ current_state' = data[1]
    /\ portfolio_value' = Num(0)
    /\ last' = [NoCall EXCEPT !.op = "reset", !.pre_balance = balance,
                               !.pre_position = position, !.pre_step = current_step]
    /\ UNCHANGED <<data, position>>

reset ==
    /\ current_step' = 0
    /\ balance' = Num(InitialBalance)
    /\ current_state' = data[1]
    /\ portfolio_value' = Num(0)
    /\ position' = NoPosition
    /\ last' = [NoCall EXCEPT !.op = "reset", !.pre_balance = balance,
                               !.pre_position = position, !.pre_step = current_step]
    /\ UNCHANGED data

\* a step that does not advance the bar index when it holds
step_hold_keeps_index(raw, volume) ==
    /\ current_step < Len(data)
    /\ LET action == action_mapping[raw]
           current_price == data[current_step + 1]
       IN  \E pv \in {update_portfolio_value(position, current_price)},
              function \in {get_action_position_outcome(<<action, position.position_type>>)} :
             \E s1 \in {Call(function,
                              [balance |-> balance, position |-> position,
                               portfolio_value |-> pv, events |-> <<>>, raised |-> FALSE],
                              action, volume, current_price)} :
               /\ current_state' = current_price
               /\ balance' = s1.balance
               /\ position' = s1.position
               /\ portfolio_value' = IF s1.raised THEN pv
                                     ELSE update_portfolio_value(s1.position, current_price)
               /\ current_step' = IF s1.raised \/ function = "hold" THEN current_step
                                  ELSE current_step + 1
               /\ last' = [op |-> "step", action |-> action, volume |-> volume,
                           price |-> current_price,
                           pre_balance |-> balance, pre_position |-> position,
                           pre_portfolio_value |-> pv, pre_step |-> current_step,
                           function |-> function, events |-> s1.events,
                           raised |-> s1.raised, returned |-> "None"]
    /\ UNCHANGED data

\* a step that advances the bar index by two
step_advances_twice(raw, volume) ==
    /\ current_step < Len(data)
    /\ LET action == action_mapping[raw]
           current_price == data[current_step + 1]
       IN  \E pv \in {update_portfolio_value(position, current_price)},
              function \in {get_action_position_outcome(<<action, position.position_type>>)} :
             \E s1 \in {Call(function,
                              [balance |-> balance, position |-> position,
                               portfolio_value |-> pv, events |-> <<>>, raised |-> FALSE],
                              action, volume, current_price)} :
               /\ current_state' = current_price
               /\ balance' = s1.balance
               /\ position' = s1.position
               /\ portfolio_value' = IF s1.raised THEN pv
                                     ELSE update_portfolio_value(s1.position, current_price)
               /\ current_step' = IF s1.raised THEN current_step ELSE current_step + 2
               /\ last' = [op |-> "step", action |-> action, volume |-> volume,
                           price |-> current_price,
                           pre_balance |-> balance, pre_position |-> position,
                           pre_portfolio_value |-> pv, pre_step |-> current_step,
                           function |-> function, events |-> s1.events,
                           raised |-> s1.raised, returned |-> "None"]
    /\ UNCHANGED data

\* step(raw, volume); the driver stops calling step at the end of the bars
step(raw, volume) ==
    /\ current_step < Len(data)
    /\ LET action == action_mapping[raw]
           current_price == data[current_step + 1]
       IN  \E pv \in {update_portfolio_value(position, current_price)},
              function \in {get_action_position_outcome(<<action, position.position_type>>)} :
             \E s1 \in {Call(function,
                              [balance |-> balance, position |-> position,
                               portfolio_value |-> pv, events |-> <<>>, raised |-> FALSE],
                              action, volume, current_price)} :
               /\ current_state' = current_price
               /\ balance' = s1.balance
               /\ position' = s1.position
               /\ portfolio_value' = IF s1.raised THEN pv
                                     ELSE update_portfolio_value(s1.position, current_price)
               /\ current_step' = IF s1.raised THEN current_step ELSE current_step + 1
               /\ last' = [op |-> "step", action |-> action, volume |-> volume,
                           price |-> current_price,
                           pre_balance |-> balance, pre_position |-> position,
                           pre_portfolio_value |-> pv, pre_step |-> current_step,
                           function |-> function, events |-> s1.events,
                           raised |-> s1.raised, returned |-> "None"]
    /\ UNCHANGED data

Next ==
    \/ reset
    \/ \E raw \in {1, 0, -1}, volume \in 0..MaxVolume : step(raw, volume)

Spec == Init /\ [][Next]_vars

\* ------------------------------------------------- reading the last call
Stepped == last.op = "step"

\* step returns nothing in the source; a returned triple would be
\* <<episode_over, balance, effective_action>>
ReturnsTriple == last.returned # "None"
EpisodeReportedOver == ReturnsTriple /\ last.returned[1] = TRUE
EffectiveActionIs(a) == ReturnsTriple /\ last.returned[3] = a

EventsOf(kind, who) ==
    {i \in DOMAIN last.events : last.events[i][1] = kind /\ last.events[i][2] = who}
EventsOfKind(kind) == {i \in DOMAIN last.events : last.events[i][1] = kind}

\* comparisons of numbers
Leq(x, y) == x[1] * y[2] <= y[1] * x[2]
IsZero(x) == x[1] = 0

\* the largest integer not above the number x
Floor(x) == x[1] \div x[2]

\* ------------------------------------------------------------------ claims

\* C1: in every reachable state the position side is NONE (PositionType.HOLD)
\* if and only if the owned volume is 0.
C1_SideNoneIffNoVolume ==
    (position.position_type = "HOLD") <=> (position.owned_volume = 0)

\* C2: a step that starts with portfolio_value + balance <= 0 or balance <= 0
\* (valued at the step's bar) closes the whole position, reports the episode as
\* over and does not apply the requested action; otherwise the stop loss does
\* not fire.
StopLossDue ==
    \/ Leq(Add(last.pre_portfolio_value, last.pre_balance), Num(0))
    \/ Leq(last.pre_balance, Num(0))
C2_StopLossAtStepStart ==
    Stepped =>
        IF StopLossDue
        THEN /\ position = NoPosition
             /\ EpisodeReportedOver
             /\ EventsOfKind("cost") = {}
        ELSE ~EpisodeReportedOver

\* C3: a step with volume 0 and a LONG or SHORT action changes neither balance
\* nor position, charges no fee, has effective action HOLD and reports the
\* episode as not over.
C3_ZeroVolumeRejected ==
    (Stepped /\ last.volume = 0 /\ last.action # "HOLD") =>
        /\ balance = last.pre_balance
        /\ position = last.pre_position
        /\ EventsOfKind("fee") = {}
        /\ EffectiveActionIs("HOLD")
        /\ ~EpisodeReportedOver

\* C4: open_new_position and buy_more transact the requested volume when
\* balance >= volume*price + fee and floor((balance - fee)/price) otherwise; the
\* volume added and the cost deducted are those of that clamped volume.
C4_ClampedVolume(bal, volume, price) ==
    IF Leq(Add(Mul(Num(volume), Num(price)), Num(TransactionFee)), bal)
    THEN volume
    ELSE Floor(Div(Sub(bal, Num(TransactionFee)), Num(price)))
C4_AffordabilityClamp ==
    (Stepped /\ last.function \in {"open_new_position", "buy_more"}) =>
        LET clamped == C4_ClampedVolume(last.pre_balance, last.volume, last.price)
        IN  /\ position.owned_volume = last.pre_position.owned_volume + clamped
            /\ \A i \in EventsOfKind("cost") :
                  last.events[i][3] = Mul(Num(clamped), Num(last.price))

\* C5: dispatch is a total function of (action, side): over all nine pairs
\* exactly one entry of the table holds the pair and the handler is the one of
\* the transition table; every step ran the handler of its pair.
TransitionTable(action, side) ==
    CASE action = "HOLD" -> "hold"
      [] action # "HOLD" /\ side = "HOLD" -> "open_new_position"
      [] action # "HOLD" /\ side = action -> "buy_more"
      [] OTHER -> "sell"
C5_DispatchTotal ==
    /\ \A a \in PositionType, side \in PositionType :
          /\ Cardinality({i \in 1..Len(action_position_mapping) :
                            <<a, side>> \in action_position_mapping[i].keys}) = 1
          /\ get_action_position_outcome(<<a, side>>) = TransitionTable(a, side)
    /\ Stepped =>
          /\ last.function = TransitionTable(last.action, last.pre_position.position_type)
          /\ ~(last.function = "None")
C5_Witness ==
    /\ Stepped
    /\ last.action = "HOLD"
    /\ last.pre_position.position_type = "SHORT"
    /\ last.function = "hold"

\* C6: a sell of volume v >= owned credits exactly the pre-sale portfolio
\* value and resets the position; with v > owned it opens a position of the
\* requested side at the same price on v - owned; with v = owned it stays flat.
FullClose ==
    /\ Stepped
    /\ last.function = "sell"
    /\ last.volume >= last.pre_position.owned_volume
C6_FullCloseLaw ==
    FullClose =>
        LET owned == last.pre_position.owned_volume
            rest == last.volume - owned
        IN  /\ Cardinality(EventsOfKind("outcome")) = 1
            /\ last.events[1] = <<"outcome", "sell", last.pre_portfolio_value>>
            /\ IF rest > 0
               THEN /\ position = [position_type |-> last.action,
                                   owned_volume |-> rest,
                                   purchase_price |-> Num(last.price)]
                    /\ last.action # last.pre_position.position_type
                    /\ last.events[2] = <<"cost", "open_new_position",
                                          Mul(Num(rest), Num(last.price))>>
               ELSE /\ position = NoPosition
                    /\ EventsOfKind("cost") = {}
C6_Witness ==
    /\ FullClose
    /\ last.pre_position.owned_volume > 0
    /\ last.volume > last.pre_position.owned_volume
    /\ ~IsZero(last.pre_portfolio_value)
    /\ last.pre_portfolio_value #
          Mul(last.pre_position.purchase_price, Num(last.pre_position.owned_volume))
    /\ position.position_type = last.action

\* C7: every sell pays its own transaction fee exactly once, in the partial
\* close, the exact full close and the over-fill; the open_new_position of an
\* over-fill pays its own fee and does not make sell pay again or not at all.
C7_SellFeeOnce ==
    (Stepped /\ last.function = "sell") =>
        /\ Cardinality(EventsOf("fee", "sell")) = 1
        /\ last.events[Len(last.events)] = <<"fee", "sell", Num(TransactionFee)>>
        /\ Cardinality(EventsOf("fee", "open_new_position")) =
              IF last.volume > last.pre_position.owned_volume THEN 1 ELSE 0
C7_Witness ==
    /\ Stepped
    /\ last.function = "sell"
    /\ last.volume > last.pre_position.owned_volume
    /\ Cardinality(EventsOfKind("fee")) = 2

\* C8: a partial sell of 0 < v < owned at price p from entry E credits exactly
\* v*p (LONG) or v*(2E - p) (SHORT), lowers the volume by v and keeps side and
\* entry price.
PartialSell ==
    /\ Stepped
    /\ last.function = "sell"
    /\ 0 < last.volume
    /\ last.volume < last.pre_position.owned_volume
C8_PartialSellProceeds ==
    PartialSell =>
        LET E == last.pre_position.purchase_price
            p == Num(last.price)
            v == Num(last.volume)
            proceeds == IF last.pre_position.position_type = "LONG"
                        THEN Mul(v, p)
                        ELSE Mul(v, Sub(Mul(Num(2), E), p))
        IN  /\ EventsOfKind("outcome") = {1}
            /\ last.events[1][3] = proceeds
            /\ balance = Sub(Add(last.pre_balance, proceeds), Num(TransactionFee))
            /\ position = [last.pre_position EXCEPT
                             !.owned_volume = @ - last.volume]
C8_Witness ==
    /\ PartialSell
    /\ last.pre_position.position_type = "SHORT"
    /\ last.pre_position.purchase_price # Num(last.price)

\* C9: buy_more of volume v at price p on a position of volume V and entry E
\* leaves volume V + v, the same side and an entry price e with
\* e*(V + v) = E*V + p*v, also after several additions at different prices.
C9_WeightedAverage ==
    (Stepped /\ last.function = "buy_more") =>
        LET V == last.pre_position.owned_volume
            E == last.pre_position.purchase_price
        IN  /\ position.owned_volume = V + last.volume
            /\ position.position_type = last.pre_position.position_type
            /\ Mul(position.purchase_price, Num(V + last.volume)) =
                  Add(Mul(E, Num(V)), Mul(Num(last.price), Num(last.volume)))
C9_Witness ==
    /\ Stepped
    /\ last.function = "buy_more"
    /\ last.volume > 0
    /\ last.pre_position.purchase_price[2] # 1
    /\ position.purchase_price # last.pre_position.purchase_price

\* C10: after reset and after every step the stored portfolio_value is the
\* valuation of the current position at the price of the bar last read: 0 for
\* NONE, price*volume for LONG, 2*entry*volume - price*volume for SHORT.
C10_PortfolioValueIsValuation ==
    LET p == Num(current_state)
        V == Num(position.owned_volume)
        E == position.purchase_price
    IN  portfolio_value =
            CASE position.position_type = "HOLD" -> Num(0)
              [] position.position_type = "LONG" -> Mul(p, V)
              [] position.position_type = "SHORT" ->
                    Sub(Mul(Mul(Num(2), E), V), Mul(p, V))
C10_Witness ==
    /\ Stepped
    /\ position.position_type = "SHORT"
    /\ position.owned_volume > 0
    /\ position.purchase_price # Num(current_state)
    /\ last.pre_position # position

\* C11: reset after any steps re-establishes exactly the state after
\* construction (initial balance, no position, portfolio_value 0, step index
\* 0, first bar), whatever the episode before; so a second reset changes
\* nothing and the same inputs replay the same states.
AfterReset == last.op = "reset"
C11_ResetRestoresInitialState ==
    AfterReset =>
        /\ balance = Num(InitialBalance)
        /\ position = NoPosition
        /\ portfolio_value = Num(0)
        /\ current_step = 0
        /\ current_state = data[1]
C11_Witness ==
    /\ AfterReset
    /\ last.pre_step = NumBars
    /\ last.pre_position.owned_volume > 0
    /\ last.pre_balance # Num(InitialBalance)
    /\ position = NoPosition
    /\ current_step = 0

\* C12: every step returns <<episode_over, balance, effective_action>> with
\* the balance after the step, episode_over true when the stop loss fired and
\* false on a rejected zero-volume step, and effective_action HOLD when the
\* request was coerced and the requested action otherwise.
C12_StepReturnsTriple ==
    Stepped =>
        /\ ReturnsTriple
        /\ last.returned[2] = balance
        /\ StopLossDue => last.returned[1] = TRUE
        /\ (last.volume = 0 /\ ~StopLossDue) => last.returned[1] = FALSE
        /\ last.returned[3] \in {"HOLD", last.action}

\* C13: a HOLD step, with any volume and on any side, leaves balance and
\* position unchanged and charges no fee; portfolio_value is revalued at the
\* step's bar and the step index advances.  (The source has no stop loss, so
\* no HOLD step is overridden.)
HoldStep == Stepped /\ last.action = "HOLD"
C13_HoldChangesNothing ==
    HoldStep =>
        /\ last.function = "hold"
        /\ balance = last.pre_balance
        /\ position = last.pre_position
        /\ last.events = <<>>
        /\ portfolio_value = last.pre_portfolio_value
        /\ current_step = last.pre_step + 1
C13_Witness ==
    /\ HoldStep
    /\ last.volume > 0
    /\ position.position_type = "SHORT"
    /\ position.owned_volume > 0
    /\ current_step >= 2
    /\ data[current_step] # data[current_step - 1]

\* C14: no step ends in an exception: zero volume with a LONG or SHORT
\* action, insufficient funds and adding zero volume to a position all
\* complete normally.
C14_NoStepRaises == Stepped => ~last.raised

\* C15: the step index is 0 after reset and every step that completes, with
\* whichever handler, advances it by exactly 1.
C15_StepIndexAdvancesByOne ==
    /\ last.op \in {"__init__", "reset"} => current_step = 0
    /\ (Stepped /\ ~last.raised) => current_step = last.pre_step + 1
C15_Witness ==
    /\ Stepped
    /\ ~last.raised
    /\ last.function = "hold"
    /\ current_step = NumBars

\* C16: when open_new_position or buy_more runs and the affordability-clamped
\* volume is 0, balance and position are unchanged, no fee is charged and
\* the action is coerced to HOLD.
C16_ZeroClampIsNoOp ==
    (/\ Stepped
     /\ last.function \in {"open_new_position", "buy_more"}
     /\ C4_ClampedVolume(last.pre_balance, last.volume, last.price) = 0) =>
        /\ balance = last.pre_balance
        /\ position = last.pre_position
        /\ EventsOfKind("fee") = {}
        /\ EffectiveActionIs("HOLD")

\* C17: with the driver calling step once per bar of a sequence of N bars,
\* the step index never exceeds N - 1, also after the last step.
C17_StepIndexBelowLength == current_step <= Len(data) - 1

\* C17 as the source has it: the step index never exceeds N; every step
\* reads a bar of index at most N - 1, and the step of the last bar leaves
\* the index at N.
C17_StepIndexAtMostLength ==
    /\ current_step <= Len(data)
    /\ Stepped => last.pre_step <= Len(data) - 1
    /\ (Stepped /\ ~last.raised /\ last.pre_step = Len(data) - 1) =>
          current_step = Len(data)
C17_Witness ==
    /\ Stepped
    /\ last.pre_step = Len(data) - 1
    /\ current_step = Len(data)

\* C18: in every reachable state the owned volume is >= 0, the entry price
\* is >= 0, and the entry price is 0 whenever the side is NONE.
C18_PositionWellFormed ==
    /\ position.owned_volume >= 0
    /\ position.purchase_price[1] >= 0
    /\ position.purchase_price[2] > 0
    /\ position.position_type = "HOLD" => position.purchase_price = Num(0)
C18_Witness ==
    /\ Stepped
    /\ last.function = "sell"
    /\ last.pre_position.owned_volume > 0
    /\ last.volume = last.pre_position.owned_volume
    /\ position.position_type = "HOLD"

\* C19: within a step, balance + portfolio_value at the end equals balance +
\* portfolio_value as revalued at the start of the step, less the
\* transaction fee times the number of fees paid in the step.
C19_EquityConservation ==
    Stepped =>
        Add(balance, portfolio_value) =
            Sub(Add(last.pre_balance, last.pre_portfolio_value),
                Mul(Num(TransactionFee), Num(Cardinality(EventsOfKind("fee")))))
C19_Witness ==
    /\ Stepped
    /\ last.function = "sell"
    /\ last.pre_position.position_type = "SHORT"
    /\ last.pre_position.owned_volume > 0
    /\ last.volume > last.pre_position.owned_volume
    /\ last.pre_position.purchase_price # Num(last.price)
    /\ Cardinality(EventsOfKind("fee")) = 2
    /\ position.position_type = "LONG"

====
